---- MODULE Spec2Model ----
(***************************************************************************)
(* Model of the content resolution pipeline of src/main.py: URL            *)
(* validation and classification, the primary structured lookup, the       *)
(* ordered fallback strategies (standard, mobile, embed), the retrying     *)
(* dispatcher and the pattern extractor.                                   *)
(*                                                                         *)
(* Strings are sequences of one-character strings, so that substring       *)
(* tests, splits and regular-expression searches are computed character    *)
(* by character as the Python code computes them.                          *)
(***************************************************************************)
EXTENDS Integers, Sequences, FiniteSets, TLC

(***************************************************************************)
(* Bounds of the model (not program constants).                            *)
(***************************************************************************)
\* number of inbound calls the model follows, all inside one 60-second window
MaxCalls == 2

(***************************************************************************)
(* Program constants.                                                      *)
(***************************************************************************)
\* len(USER_AGENTS)
NumUserAgents == 8
\* make_request_with_retry(url, max_retries = 3)
max_retries == 3
\* random.uniform(2, 5) before a repeated attempt
DelayMin == 2
DelayMax == 5
\* random.uniform(10, 20) after HTTP 429
RateLimitSleepMin == 10
RateLimitSleepMax == 20
\* random.uniform(3, 7) after a network error
ErrorSleepMin == 3
ErrorSleepMax == 7
\* unique_urls[:10]
MaxMediaUrls == 10

(***************************************************************************)
(* String literals.                                                        *)
(***************************************************************************)
S_http == <<"h","t","t","p",":","/","/">>
S_https == <<"h","t","t","p","s",":","/","/">>
S_www == <<"w","w","w",".">>
S_dom == <<"i","n","s","t","a","g","r","a","m",".","c","o","m">>
S_host == S_dom \o <<"/">>
S_p == <<"/","p","/">>
S_reel == <<"/","r","e","e","l","/">>
S_reels == <<"/","r","e","e","l","s","/">>
S_tv == <<"/","t","v","/">>
S_stories == <<"/","s","t","o","r","i","e","s","/">>
S_embed == <<"/","e","m","b","e","d","/">>

\* the character class [A-Za-z0-9_-] of the shortcode patterns
ShortcodeChars ==
    {"A","B","C","D","E","F","G","H","I","J","K","L","M","N","O","P","Q","R",
     "S","T","U","V","W","X","Y","Z","a","b","c","d","e","f","g","h","i","j",
     "k","l","m","n","o","p","q","r","s","t","u","v","w","x","y","z","0","1",
     "2","3","4","5","6","7","8","9","_","-"}

\* the words extract_username_from_url refuses to return
ReservedWords ==
    { <<"p">>, <<"r","e","e","l">>, <<"r","e","e","l","s">>, <<"t","v">>,
      <<"s","t","o","r","i","e","s">>, <<"e","x","p","l","o","r","e">>,
      <<"a","c","c","o","u","n","t","s">> }

(***************************************************************************)
(* String operations of Python used by the code.                           *)
(***************************************************************************)
\* s[i:].startswith(p), with i counted from 1
MatchesAt(s, p, i) ==
    /\ i >= 1
    /\ i + Len(p) - 1 <= Len(s)
    /\ \A k \in 1..Len(p) : s[i + k - 1] = p[k]

\* p in s
Contains(s, p) == \E i \in 1..(Len(s) + 1) : MatchesAt(s, p, i)

\* s.rstrip('/')
RECURSIVE RStripSlash(_)
RStripSlash(s) ==
    IF s # <<>> /\ s[Len(s)] = "/"
    THEN RStripSlash(SubSeq(s, 1, Len(s) - 1))
    ELSE s

\* length of the longest prefix of s[i:] made of characters satisfying the
\* class: inSet = TRUE for "in cs", FALSE for "not in cs"
RECURSIVE RunLen(_, _, _, _)
RunLen(s, i, cs, inSet) ==
    IF i <= Len(s) /\ ((s[i] \in cs) = inSet)
    THEN 1 + RunLen(s, i + 1, cs, inSet)
    ELSE 0

\* s.split(c)[0]
FirstField(s, c) == SubSeq(s, 1, RunLen(s, 1, {c}, FALSE))

\* s.split('/')
RECURSIVE SplitSlash(_)
SplitSlash(s) ==
    LET n == RunLen(s, 1, {"/"}, FALSE)
    IN  IF n = Len(s)
        THEN << s >>
        ELSE << SubSeq(s, 1, n) >> \o SplitSlash(SubSeq(s, n + 2, Len(s)))

\* s[i:].replace(old, new), with i counted from 1
RECURSIVE ReplaceFrom(_, _, _, _)
ReplaceFrom(s, i, old, new) ==
    IF i > Len(s) THEN <<>>
    ELSE IF MatchesAt(s, old, i)
         THEN new \o ReplaceFrom(s, i + Len(old), old, new)
         ELSE << s[i] >> \o ReplaceFrom(s, i + 1, old, new)

\* s.replace(old, new)
Replace(s, old, new) == ReplaceFrom(s, 1, old, new)

\* SearchGroup with a lazy quantifier, '(<class>+?)': the group is the first
\* character only
SearchGroup_lazy(s, prefix, cs, inSet) ==
    LET hits == { i \in 1..Len(s) :
                    /\ MatchesAt(s, prefix, i)
                    /\ RunLen(s, i + Len(prefix), cs, inSet) > 0 }
    IN  IF hits = {}
        THEN [ok |-> FALSE, val |-> <<>>]
        ELSE LET i == CHOOSE h \in hits : \A g \in hits : h <= g
                 start == i + Len(prefix)
             IN  [ok |-> TRUE, val |-> SubSeq(s, start, start)]

\* re.search(prefix + '(<class>+)', s): the group of the leftmost match, as
\* [ok |-> TRUE, val |-> group], or [ok |-> FALSE] when nothing matches
SearchGroup(s, prefix, cs, inSet) ==
    LET hits == { i \in 1..Len(s) :
                    /\ MatchesAt(s, prefix, i)
                    /\ RunLen(s, i + Len(prefix), cs, inSet) > 0 }
    IN  IF hits = {}
        THEN [ok |-> FALSE, val |-> <<>>]
        ELSE LET i == CHOOSE h \in hits : \A g \in hits : h <= g
                 start == i + Len(prefix)
             IN  [ok |-> TRUE,
                  val |-> SubSeq(s, start,
                                 start + RunLen(s, start, cs, inSet) - 1)]

(***************************************************************************)
(* URL validation and token extraction.                                    *)
(***************************************************************************)
\* re.match(r'https?://(www\.)?instagram\.com/', url)
IsInstagramUrl(u) ==
    \E scheme \in {S_http, S_https} :
        /\ MatchesAt(u, scheme, 1)
        /\ \/ MatchesAt(u, S_host, Len(scheme) + 1)
           \/ MatchesAt(u, S_www \o S_host, Len(scheme) + 1)

ShortcodePatterns == << S_p, S_reel, S_reels, S_tv >>

\* extract_shortcode_from_url: the first pattern, in list order, that matches
\* anywhere in the url; ok = FALSE stands for the ValueError
RECURSIVE ShortcodeFrom(_, _)
ShortcodeFrom(u, k) ==
    IF k > Len(ShortcodePatterns)
    THEN [ok |-> FALSE, val |-> <<>>]
    ELSE LET m == SearchGroup(u, ShortcodePatterns[k], ShortcodeChars, TRUE)
         IN  IF m.ok THEN m ELSE ShortcodeFrom(u, k + 1)

extract_shortcode_from_url(u) == ShortcodeFrom(u, 1)

\* username.split('?')[0].split('#')[0]
StripQuery(s) == FirstField(FirstField(s, "?"), "#")

\* extract_username_from_url; ok = FALSE stands for the ValueError
extract_username_from_url(u) ==
    LET parts == SplitSlash(RStripSlash(u))
        cands == { i \in 1..Len(parts) :
                     /\ Contains(parts[i], S_dom)
                     /\ i + 1 <= Len(parts)
                     /\ StripQuery(parts[i + 1]) \notin ReservedWords }
        m == SearchGroup(u, S_host, {"/", "?", "#"}, FALSE)
    IN  IF cands # {}
        THEN [ok |-> TRUE,
              val |-> StripQuery(parts[(CHOOSE i \in cands :
                                          \A j \in cands : i <= j) + 1])]
        ELSE IF m.ok /\ m.val \notin ReservedWords
             THEN m
             ELSE [ok |-> FALSE, val |-> <<>>]

(***************************************************************************)
(* The pattern extractor, extract_instagram_data.                          *)
(*                                                                         *)
(* A response body is the sequence, in document order, of the              *)
(* "key":"value" occurrences it holds: [key |-> the text that precedes the *)
(* value, val |-> the raw value].  A pattern is the set of keys whose text *)
(* it matches and the substring the value must hold.                       *)
(***************************************************************************)
S_mp4 == <<".","m","p","4">>
S_jpg == <<".","j","p","g">>
S_jpeg == <<".","j","p","e","g">>
S_instagram == <<"i","n","s","t","a","g","r","a","m">>
S_fbcdn == <<"f","b","c","d","n">>
S_escAmp == <<"\\","u","0","0","2","6">>
S_escSlash == <<"\\","/">>
S_escEq == <<"\\","u","0","0","3","d">>

Pat(keys, need) == [keys |-> keys, need |-> need]

\* patterns['video_url']; the third pattern matches whatever the first does,
\* and "src" also occurs inside "display_resources":[{"src":
VideoPatterns ==
    << Pat({"video_url"}, <<>>), Pat({"videoUrl"}, <<>>),
       Pat({"video_url"}, <<>>), Pat({"src", "display_resources"}, S_mp4),
       Pat({"playback_url"}, <<>>), Pat({"video_dash_manifest"}, <<>>),
       Pat({"videoUrl&quot;"}, <<>>), Pat({"video_versions"}, <<>>) >>

\* patterns['display_url']
DisplayPatterns ==
    << Pat({"display_url"}, <<>>), Pat({"displayUrl"}, <<>>),
       Pat({"display_url"}, <<>>), Pat({"src", "display_resources"}, S_jpg),
       Pat({"src", "display_resources"}, S_jpeg),
       Pat({"image_versions2"}, <<>>), Pat({"displayUrl&quot;"}, <<>>),
       Pat({"display_resources"}, <<>>) >>

\* patterns['profile_pic']
ProfilePatterns ==
    << Pat({"profile_pic_url_hd"}, <<>>), Pat({"profilePicUrlHd"}, <<>>),
       Pat({"profile_pic_url_hd"}, <<>>),
       Pat({"hd_profile_pic_url_info"}, <<>>),
       Pat({"hd_profile_pic_versions"}, <<>>) >>

\* re.findall(pattern, html_content): every match, in document order
RECURSIVE FindAll(_, _)
FindAll(pattern, body) ==
    IF body = <<>> THEN <<>>
    ELSE LET e == Head(body)
             hit == /\ e.key \in pattern.keys
                    /\ e.val # <<>>
                    /\ Contains(e.val, pattern.need)
         IN  (IF hit THEN << e.val >> ELSE <<>>)
                 \o FindAll(pattern, Tail(body))

\* for pattern in patterns[family]: urls.extend(re.findall(pattern, html))
RECURSIVE FamilyMatches(_, _)
FamilyMatches(patterns, body) ==
    IF patterns = <<>> THEN <<>>
    ELSE FindAll(Head(patterns), body) \o FamilyMatches(Tail(patterns), body)

\* InSeq with a membership test that never finds the url: nothing is taken
\* for a duplicate
InSeq_never(x, s) == FALSE

\* url in cleaned, url in seen
InSeq(x, s) == \E i \in 1..Len(s) : s[i] = x

\* url.replace('\\u0026', '&').replace('\\/', '/').replace('\\u003d', '=')
Unescape(raw) ==
    Replace(Replace(Replace(raw, S_escAmp, <<"&">>), S_escSlash, <<"/">>),
            S_escEq, <<"=">>)

\* clean_urls
RECURSIVE CleanInto(_, _)
CleanInto(cleaned, urls) ==
    IF urls = <<>> THEN cleaned
    ELSE LET c == Unescape(Head(urls))
         IN  IF /\ ~InSeq(c, cleaned)
                /\ (Contains(c, S_instagram) \/ Contains(c, S_fbcdn))
             THEN CleanInto(Append(cleaned, c), Tail(urls))
             ELSE CleanInto(cleaned, Tail(urls))

clean_urls(urls) == CleanInto(<<>>, urls)

\* "Remove duplicates while preserving order"
RECURSIVE UniqueInto(_, _)
UniqueInto(unique, urls) ==
    IF urls = <<>> THEN unique
    ELSE IF InSeq(Head(urls), unique)
         THEN UniqueInto(unique, Tail(urls))
         ELSE UniqueInto(Append(unique, Head(urls)), Tail(urls))

\* Take without the limit: the whole sequence
Take_all(s, n) == s

\* s[:n]
Take(s, n) == SubSeq(s, 1, IF Len(s) < n THEN Len(s) ELSE n)

\* the content type extract_instagram_data derives from the url
ExtractedType(u) ==
    IF Contains(u, S_reel) \/ Contains(u, S_reels) THEN "reel"
    ELSE IF Contains(u, S_p) THEN "post"
    ELSE IF Contains(u, S_stories) THEN "story"
    ELSE "profile"

\* SelectMedia with the videos of a post before its images
SelectMedia_videoFirst(type, video_urls, image_urls, profile_urls) ==
    CASE type = "reel" -> (IF video_urls # <<>> THEN video_urls
                                                 ELSE image_urls)
      [] type = "post" -> video_urls \o image_urls
      [] type = "story" -> video_urls \o image_urls
      [] OTHER -> profile_urls

\* the candidates selected for the content type
SelectMedia(type, video_urls, image_urls, profile_urls) ==
    CASE type = "reel" -> (IF video_urls # <<>> THEN video_urls
                                                 ELSE image_urls)
      [] type = "post" -> image_urls \o video_urls
      [] type = "story" -> video_urls \o image_urls
      [] OTHER -> profile_urls

extract_instagram_data(html_content, u) ==
    LET video_urls == clean_urls(FamilyMatches(VideoPatterns, html_content))
        image_urls == clean_urls(FamilyMatches(DisplayPatterns, html_content))
        profile_urls ==
            clean_urls(FamilyMatches(ProfilePatterns, html_content))
        content_type == ExtractedType(u)
        media_urls ==
            Take(UniqueInto(<<>>, SelectMedia(content_type, video_urls,
                                               image_urls, profile_urls)),
                 MaxMediaUrls)
    IN  [type |-> content_type,
         media_urls |-> media_urls,
         success |-> Len(media_urls) > 0]

(***************************************************************************)
(* Inputs: the urls of inbound calls and the answers of the collaborators  *)
(* (the primary lookup service and the HTTP fetch).                        *)
(***************************************************************************)
Origin == S_https \o S_www \o S_host

RequestUrls ==
    { \* post-family urls
      Origin \o <<"p","/","A","b","1","/">>,
      Origin \o <<"p","/">>,
      S_https \o S_host \o <<"r","e","e","l","/","X","_","9">>,
      Origin \o <<"r","e","e","l","s","/","X","_","9","/">>,
      S_http \o S_www \o S_host \o <<"t","v","/","c","-","d">>,
      Origin \o <<"r","e","e","l","/","X","_","9","/","?","s","=","1">>,
      \* story and profile urls
      Origin \o <<"s","t","o","r","i","e","s","/","b","o","b","/","7","/">>,
      Origin \o <<"b","o","b">>,
      Origin \o <<"e","x","p","l","o","r","e","/">>,
      Origin \o <<"?","h","l","=","e","n">>,
      \* urls the validation refuses
      S_https \o <<"e","v","i","l",".","c","o","m","/","p","/","A","b","1">>,
      S_https \o S_www \o S_dom,
      S_https \o S_www \o <<"i","n","s","t","a","g","r","a","m","X","c","o",
                            "m","/","p","/","A","b","1","/">> }

M_image == <<"f","b","c","d","n","/","i",".","j","p","g">>
M_thumb == <<"f","b","c","d","n","/","t",".","j","p","g">>
M_video == <<"f","b","c","d","n","/","v",".","m","p","4">>
M_pic == <<"i","n","s","t","a","g","r","a","m","/","h","d">>
R_video == <<"f","b","c","d","n","\\","/","v",".","m","p","4">>
R_image == <<"f","b","c","d","n","\\","/","i",".","j","p","g">>
R_other == <<"c","d","n","\\","/","x",".","j","p","g">>

MediaItem(is_video, video_url, url) ==
    [is_video |-> is_video, video_url |-> video_url, url |-> url]

\* the objects Post.from_shortcode can return; <<>> stands for a missing url
Posts ==
    { [item |-> MediaItem(FALSE, <<>>, M_image), children |-> <<>>],
      [item |-> MediaItem(TRUE, M_video, M_thumb), children |-> <<>>],
      [item |-> MediaItem(TRUE, <<>>, M_thumb), children |-> <<>>],
      [item |-> MediaItem(FALSE, <<>>, <<>>), children |-> <<>>],
      [item |-> MediaItem(FALSE, <<>>, M_image),
       children |-> << MediaItem(FALSE, <<>>, M_image),
                       MediaItem(TRUE, M_video, M_thumb) >>] }

\* the profile_pic_url values Profile.from_username can return
ProfilePics == { M_pic }

\* the ways a primary lookup can raise: a transient or structural failure,
\* or the service confirming that the content is private or removed
LookupErrors == { "transient", "private" }

Entry(key, val) == [key |-> key, val |-> val]

\* the bodies of HTTP 200 responses
Bodies ==
    { <<>>,
      << Entry("video_url", R_video), Entry("display_url", R_image) >>,
      << Entry("display_url", R_image) >>,
      << Entry("profile_pic_url_hd", M_pic) >>,
      << Entry("display_url", R_other) >> }

\* the outcomes of one requests.get: 200 with a body, 429, another status,
\* or a RequestException
Responses ==
    { [kind |-> "ok", body |-> b] : b \in Bodies }
        \cup { [kind |-> k, body |-> <<>>] : k \in {"429", "status", "neterr"} }

\* random.uniform(lo, hi) in whole seconds
Uniform(lo, hi) == lo..hi

(***************************************************************************)
(* State.                                                                  *)
(***************************************************************************)
VARIABLES
    calls,      \* inbound calls received so far
    pc,         \* position of the call being served
    url,        \* request.url
    token,      \* the shortcode or username given to the primary lookup
    primary,    \* how the primary strategy ended
    trace,      \* the outbound calls issued so far, oldest first
    fetched,    \* the url of the last requests.get
    attempt,    \* make_request_with_retry: loop variable
    ua,         \* make_request_with_retry: User-Agent of the last attempt
    lastFail,   \* make_request_with_retry: how the last attempt failed
    slept,      \* make_request_with_retry: seconds slept since the last get
    gap,        \* seconds slept between the last two gets of one fetch
    caught,     \* errors caught by the loop of fallback_extraction
    outcome,    \* what the caller receives
    post,       \* the object Post.from_shortcode returned
    response_text,  \* extract_instagram_data called alone: its argument
    extraction      \* extract_instagram_data called alone: its result

vars == << calls, pc, url, token, primary, trace, fetched, attempt, ua,
           lastFail, slept, gap, caught, outcome, post, response_text,
           extraction >>

extractVars == << response_text, extraction >>

NoPost == [item |-> MediaItem(FALSE, <<>>, <<>>), children |-> <<>>]

\* no call of the extractor yet
NoData == [type |-> "none", media_urls |-> <<>>, success |-> FALSE]

NoOutcome ==
    [status |-> 0, type |-> "none", media_urls |-> <<>>, label |-> "none"]

\* the JSON body of a successful answer
Success(type, media_urls, label) ==
    [status |-> 200, type |-> type, media_urls |-> media_urls,
     label |-> label]

\* raise HTTPException(status_code = status)
Failure(status) ==
    [status |-> status, type |-> "none", media_urls |-> <<>>,
     label |-> "none"]

Init ==
    /\ calls = 0
    /\ pc = "idle"
    /\ url = <<>>
    /\ token = <<>>
    /\ primary = "none"
    /\ trace = <<>>
    /\ fetched = <<>>
    /\ attempt = 0
    /\ ua = 0
    /\ lastFail = "none"
    /\ slept = 0
    /\ gap = 0
    /\ caught = <<>>
    /\ outcome = NoOutcome
    /\ post = NoPost
    /\ response_text = <<>>
    /\ extraction = NoData

retryVars == << attempt, ua, lastFail, slept, gap >>

\* the locals of make_request_with_retry before its first attempt
RetryReset ==
    /\ attempt' = 0
    /\ ua' = 0
    /\ lastFail' = "none"
    /\ slept' = 0
    /\ gap' = 0

(***************************************************************************)
(* download_instagram_content, up to its first outbound call.              *)
(***************************************************************************)
\* the test of line 367 that selects the post branch
IsPostFamily(u) ==
    Contains(u, S_p) \/ Contains(u, S_reel) \/ Contains(u, S_tv)

\* fallback_extraction(url) is entered: its first method is the standard one
EnterFallback ==
    /\ pc' = "standard"
    /\ RetryReset

\* a call arrives; the model follows MaxCalls of them
Accept(u) ==
    /\ pc = "idle"
    /\ calls < MaxCalls
    /\ calls' = calls + 1
    /\ url' = u
    /\ UNCHANGED << post, extractVars >>

\* ReceiveInvalid without "except HTTPException: raise": the 400 reaches the
\* generic handler and leaves as a 500
ReceiveInvalid_generic(u) ==
    /\ Accept(u)
    /\ ~IsInstagramUrl(u)
    /\ outcome' = Failure(500)
    /\ pc' = "done"
    /\ UNCHANGED << token, primary, trace, fetched, retryVars, caught >>

\* the url fails the validation: HTTPException(400), re-raised as it is
ReceiveInvalid(u) ==
    /\ Accept(u)
    /\ ~IsInstagramUrl(u)
    /\ outcome' = Failure(400)
    /\ pc' = "done"
    /\ UNCHANGED << token, primary, trace, fetched, retryVars, caught >>

\* the post branch: the shortcode is extracted for the primary lookup; the
\* ValueError of a url without shortcode is caught and leads to the fallback
ReceivePost(u) ==
    /\ Accept(u)
    /\ IsInstagramUrl(u)
    /\ IsPostFamily(u)
    /\ LET sc == extract_shortcode_from_url(u)
       IN  IF sc.ok
           THEN /\ token' = sc.val
                /\ pc' = "primary_post"
                /\ UNCHANGED << primary, retryVars >>
           ELSE /\ primary' = "notoken"
                /\ EnterFallback
                /\ UNCHANGED token
    /\ UNCHANGED << trace, fetched, caught, outcome >>

\* the story branch: the fallback at once
ReceiveStory(u) ==
    /\ Accept(u)
    /\ IsInstagramUrl(u)
    /\ ~IsPostFamily(u)
    /\ Contains(u, S_stories)
    /\ EnterFallback
    /\ UNCHANGED << token, primary, trace, fetched, caught, outcome >>

\* the profile branch: the username is extracted for the primary lookup; the
\* ValueError of a url without username is caught and leads to the fallback
ReceiveProfile(u) ==
    /\ Accept(u)
    /\ IsInstagramUrl(u)
    /\ ~IsPostFamily(u)
    /\ ~Contains(u, S_stories)
    /\ LET un == extract_username_from_url(u)
       IN  IF un.ok
           THEN /\ token' = un.val
                /\ pc' = "primary_profile"
                /\ UNCHANGED << primary, retryVars >>
           ELSE /\ primary' = "notoken"
                /\ EnterFallback
                /\ UNCHANGED token
    /\ UNCHANGED << trace, fetched, caught, outcome >>

(***************************************************************************)
(* The primary strategy.                                                   *)
(***************************************************************************)
\* "Get primary media URL"
PrimaryMedia(po) ==
    IF po.item.is_video /\ po.item.video_url # <<>>
    THEN << po.item.video_url >>
    ELSE IF po.item.url # <<>> THEN << po.item.url >> ELSE <<>>

\* content_type = 'reel' if '/reel/' in request.url else 'post'
PrimaryType(u) == IF Contains(u, S_reel) THEN "reel" ELSE "post"

\* PrimaryFallsBack with a handler that surfaces a confirmed-private failure
\* instead of falling back
PrimaryFallsBack_surface(how) ==
    /\ primary' = how
    /\ IF how = "private"
       THEN /\ pc' = "done"
            /\ outcome' = Failure(403)
            /\ UNCHANGED retryVars
       ELSE /\ EnterFallback
            /\ UNCHANGED outcome

\* a primary lookup failed or found nothing: "Using fallback extraction"
PrimaryFallsBack(how) ==
    /\ primary' = how
    /\ EnterFallback
    /\ UNCHANGED outcome

\* instaloader.Post.from_shortcode(L.context, shortcode) and what follows it
PrimaryPost ==
    /\ pc = "primary_post"
    /\ trace' = Append(trace, "lookup")
    /\ \/ \E found \in Posts :
            /\ post' = found
            /\ IF PrimaryMedia(found) # <<>>
               THEN /\ outcome' = Success(PrimaryType(url),
                                          PrimaryMedia(found), "Instaloader")
                    /\ primary' = "resolved"
                    /\ pc' = "done"
                    /\ UNCHANGED retryVars
               ELSE PrimaryFallsBack("empty")
       \/ /\ \E e \in LookupErrors : PrimaryFallsBack(e)
          /\ UNCHANGED post
    /\ UNCHANGED << calls, url, token, fetched, caught, extractVars >>

\* instaloader.Profile.from_username(L.context, username) and what follows
PrimaryProfile ==
    /\ pc = "primary_profile"
    /\ trace' = Append(trace, "lookup")
    /\ \/ \E pic \in ProfilePics :
            /\ outcome' = Success("profile", << pic >>, "profile picture")
            /\ primary' = "resolved"
            /\ pc' = "done"
            /\ UNCHANGED retryVars
       \/ \E e \in LookupErrors : PrimaryFallsBack(e)
    /\ UNCHANGED << calls, url, token, fetched, caught, post, extractVars >>

(***************************************************************************)
(* fallback_extraction: the loop over the three methods.                   *)
(***************************************************************************)
Methods == << "standard", "mobile", "embed" >>

MethodName(m) ==
    CASE m = "standard" -> "Standard request"
      [] m = "mobile" -> "Mobile user agent"
      [] m = "embed" -> "Embed request"

\* the loop moves to the method after m; after the last one it raises
\* HTTPException(404), which the outer handlers re-raise as it is
NextMethod(m) ==
    IF m = "embed"
    THEN /\ pc' = "done"
         /\ outcome' = Failure(404)
    ELSE /\ pc' = (IF m = "standard" THEN "mobile" ELSE "embed")
         /\ UNCHANGED outcome

\* extract_instagram_data over the bodies and urls of the model, computed once
ExtractTable ==
    { [body |-> b, url |-> u, data |-> extract_instagram_data(b, u)] :
          b \in Bodies, u \in RequestUrls }

\* media_data = extract_instagram_data(response.text, url)
Extracted(body, u) ==
    (CHOOSE t \in ExtractTable : t.body = body /\ t.url = u).data

\* MethodReturned without the return: the loop goes on after a success
MethodReturned_goesOn(m, body) ==
    LET media_data == Extracted(body, url)
    IN  /\ pc' = (CASE m = "standard" -> "mobile"
                    [] m = "mobile" -> "embed"
                    [] OTHER -> "done")
        /\ outcome' = (IF media_data.success
                       THEN Success(media_data.type, media_data.media_urls,
                                    MethodName(m))
                       ELSE IF m = "embed" /\ outcome.status # 200
                            THEN Failure(404)
                            ELSE outcome)
        /\ UNCHANGED caught

\* method m returned a response: extract, return on success, else go on
MethodReturned(m, body) ==
    LET media_data == Extracted(body, url)
    IN  IF media_data.success
        THEN /\ outcome' = Success(media_data.type, media_data.media_urls,
                                   MethodName(m))
             /\ pc' = "done"
             /\ UNCHANGED caught
        ELSE /\ NextMethod(m)
             /\ UNCHANGED caught

\* method m raised: "except Exception ... continue"
MethodRaised(m, error) ==
    /\ caught' = Append(caught, [method |-> m, error |-> error])
    /\ NextMethod(m)

(***************************************************************************)
(* make_request_with_retry, the standard method.                           *)
(***************************************************************************)
\* get_headers(): random.choice(USER_AGENTS)
get_headers == 1..NumUserAgents

\* StandardRequest without the delay of a repeated attempt
StandardRequest_noDelay ==
    /\ pc = "standard"
    /\ attempt < max_retries
    /\ ua' \in get_headers
    /\ gap' = slept
    /\ slept' = 0
    /\ trace' = Append(trace, "standard")
    /\ fetched' = url
    /\ pc' = "std_wait"
    /\ UNCHANGED << calls, url, token, primary, attempt, lastFail, caught,
                    outcome, post, extractVars >>

\* the top of one loop iteration up to requests.get: the headers are chosen,
\* a repeated attempt sleeps its delay, the request is sent
StandardRequest ==
    /\ pc = "standard"
    /\ attempt < max_retries
    /\ ua' \in get_headers
    /\ IF attempt > 0
       THEN \E delay \in Uniform(DelayMin, DelayMax) : gap' = slept + delay
       ELSE gap' = slept
    /\ slept' = 0
    /\ trace' = Append(trace, "standard")
    /\ fetched' = url
    /\ pc' = "std_wait"
    /\ UNCHANGED << calls, url, token, primary, attempt, lastFail, caught,
                    outcome, post, extractVars >>

\* AttemptFailed with a loop that never reports its exhaustion
AttemptFailed_again(how) ==
    /\ lastFail' = how
    /\ attempt' = attempt + 1
    /\ gap' = 0
    /\ pc' = "standard"
    /\ UNCHANGED << ua, caught, outcome >>

\* the attempt failed: the loop goes on, or ends after the last attempt
AttemptFailed(how) ==
    /\ lastFail' = how
    /\ attempt' = attempt + 1
    /\ gap' = 0
    /\ pc' = (IF attempt + 1 < max_retries THEN "standard"
                                           ELSE "std_exhausted")
    /\ UNCHANGED << ua, caught, outcome >>

\* status 200: the response is returned to the loop of fallback_extraction
StandardOk(r) ==
    /\ r.kind = "ok"
    /\ RetryReset
    /\ MethodReturned("standard", r.body)

\* status 429: "Wait longer for rate limits"
Standard429(r) ==
    /\ r.kind = "429"
    /\ slept' \in Uniform(RateLimitSleepMin, RateLimitSleepMax)
    /\ AttemptFailed("429")

\* another status: only logged
StandardStatus(r) ==
    /\ r.kind = "status"
    /\ slept' = 0
    /\ AttemptFailed("status")

\* requests.exceptions.RequestException
StandardNetError(r) ==
    /\ r.kind = "neterr"
    /\ IF attempt < max_retries - 1
       THEN slept' \in Uniform(ErrorSleepMin, ErrorSleepMax)
       ELSE slept' = 0
    /\ AttemptFailed("neterr")

\* requests.get answers and the rest of the loop iteration runs
StandardResponse ==
    /\ pc = "std_wait"
    /\ \E r \in Responses :
          \/ StandardOk(r)
          \/ Standard429(r)
          \/ StandardStatus(r)
          \/ StandardNetError(r)
    /\ UNCHANGED << calls, url, token, primary, trace, fetched, post,
                    extractVars >>

\* RetryExhausted with the HTTPException(503) re-raised to the caller
RetryExhausted_surface ==
    /\ pc = "std_exhausted"
    /\ RetryReset
    /\ caught' = caught
    /\ pc' = "done"
    /\ outcome' = Failure(503)
    /\ UNCHANGED << calls, url, token, primary, trace, fetched, post,
                    extractVars >>

\* the loop is over: HTTPException(503), caught by fallback_extraction
RetryExhausted ==
    /\ pc = "std_exhausted"
    /\ RetryReset
    /\ MethodRaised("standard", "503")
    /\ UNCHANGED << calls, url, token, primary, trace, fetched, post,
                    extractVars >>

(***************************************************************************)
(* make_mobile_request and make_embed_request.                             *)
(***************************************************************************)
\* one requests.get without retry: the response, or the exception raised
SingleGet(m, r) ==
    CASE r.kind = "ok" -> MethodReturned(m, r.body)
      [] r.kind = "neterr" -> MethodRaised(m, "neterr")
      [] OTHER -> MethodRaised(m, "not200")

make_mobile_request ==
    /\ pc = "mobile"
    /\ trace' = Append(trace, "mobile")
    /\ fetched' = url
    /\ \E r \in Responses : SingleGet("mobile", r)
    /\ UNCHANGED << calls, url, token, primary, retryVars, post,
                    extractVars >>

\* "Convert regular URL to embed URL"; ok = FALSE stands for the exception
EmbedUrl(u) ==
    IF Contains(u, S_p)
    THEN [ok |-> TRUE, val |-> RStripSlash(Replace(u, S_p, S_p)) \o S_embed]
    ELSE IF Contains(u, S_reel)
         THEN [ok |-> TRUE,
               val |-> RStripSlash(Replace(u, S_reel, S_p)) \o S_embed]
         ELSE [ok |-> FALSE, val |-> <<>>]

make_embed_request ==
    /\ pc = "embed"
    /\ IF EmbedUrl(url).ok
       THEN /\ trace' = Append(trace, "embed")
            /\ fetched' = EmbedUrl(url).val
            /\ \E r \in Responses : SingleGet("embed", r)
       ELSE /\ MethodRaised("embed", "noembed")
            /\ UNCHANGED << trace, fetched >>
    /\ UNCHANGED << calls, url, token, primary, retryVars, post,
                    extractVars >>

(***************************************************************************)
(* The caller boundary.                                                    *)
(***************************************************************************)
\* the answer is delivered and the process waits for the next call
Return ==
    /\ pc = "done"
    /\ pc' = "idle"
    /\ url' = <<>>
    /\ token' = <<>>
    /\ primary' = "none"
    /\ trace' = <<>>
    /\ fetched' = <<>>
    /\ caught' = <<>>
    /\ outcome' = NoOutcome
    /\ post' = NoPost
    /\ UNCHANGED << calls, retryVars, extractVars >>

Receive ==
    \E u \in RequestUrls :
        \/ ReceiveInvalid(u)
        \/ ReceivePost(u)
        \/ ReceiveStory(u)
        \/ ReceiveProfile(u)

Next ==
    \/ Receive
    \/ PrimaryPost
    \/ PrimaryProfile
    \/ StandardRequest
    \/ StandardResponse
    \/ RetryExhausted
    \/ make_mobile_request
    \/ make_embed_request
    \/ Return

Spec == Init /\ [][Next]_vars

\* the steps of the call being served: every collaborator call returns and
\* the code between two calls runs
Serve ==
    \/ PrimaryPost
    \/ PrimaryProfile
    \/ StandardRequest
    \/ StandardResponse
    \/ RetryExhausted
    \/ make_mobile_request
    \/ make_embed_request
    \/ Return

LiveSpec == Spec /\ WF_vars(Serve)

TypeOK ==
    /\ calls \in 0..MaxCalls
    /\ pc \in {"idle", "primary_post", "primary_profile", "standard",
               "std_wait", "std_exhausted", "mobile", "embed", "done",
               "extract", "extracted"}
    /\ attempt \in 0..max_retries
    /\ ua \in 0..NumUserAgents

(***************************************************************************)
(* extract_instagram_data called alone: on every body of at most           *)
(* MaxEntries entries over a few keys and values, and on bodies holding    *)
(* up to 2 * MaxMany distinct candidates.                                  *)
(***************************************************************************)
MaxEntries == 2
MaxMany == 8

ExtractKeys ==
    { "video_url", "display_url", "display_resources", "profile_pic_url_hd" }

\* the same video url escaped and unescaped, an image, an image of a host
\* that clean_urls refuses
ExtractVals == { R_video, M_video, R_image, R_other }

ExtractEntries == { Entry(k, v) : k \in ExtractKeys, v \in ExtractVals }

SmallBodies == UNION { [1..n -> ExtractEntries] : n \in 0..MaxEntries }

Glyphs == << "0", "1", "2", "3", "4", "5", "6", "7", "8", "9",
             "a", "b", "c", "d", "e", "f", "g", "h", "i", "j" >>

NthUrl(i) == S_fbcdn \o << "/", Glyphs[i] >>

\* n videos followed by m images, all distinct
ManyBody(n, m) ==
    [i \in 1..n |-> Entry("video_url", NthUrl(i))]
        \o [i \in 1..m |-> Entry("display_url", NthUrl(n + i))]

ExtractBodies ==
    SmallBodies \cup { ManyBody(n, m) : n \in 0..MaxMany, m \in 0..MaxMany }

\* one url of each kind
ExtractUrls ==
    { Origin \o <<"p","/","A","b","1","/">>,
      S_https \o S_host \o <<"r","e","e","l","/","X","_","9">>,
      S_http \o S_www \o S_host \o <<"t","v","/","c","-","d">>,
      Origin \o <<"s","t","o","r","i","e","s","/","b","o","b","/","7","/">>,
      Origin \o <<"b","o","b">> }

ExtractInit ==
    /\ pc = "extract"
    /\ url \in ExtractUrls
    /\ response_text \in ExtractBodies
    /\ extraction = NoData
    /\ calls = 0
    /\ token = <<>>
    /\ primary = "none"
    /\ trace = <<>>
    /\ fetched = <<>>
    /\ attempt = 0
    /\ ua = 0
    /\ lastFail = "none"
    /\ slept = 0
    /\ gap = 0
    /\ caught = <<>>
    /\ outcome = NoOutcome
    /\ post = NoPost

\* media_data = extract_instagram_data(response.text, url)
ExtractCall ==
    /\ pc = "extract"
    /\ extraction' = extract_instagram_data(response_text, url)
    /\ pc' = "extracted"
    /\ UNCHANGED << calls, url, token, primary, trace, fetched, retryVars,
                    caught, outcome, post, response_text >>

ExtractSpec == ExtractInit /\ [][ExtractCall]_vars

(***************************************************************************)
(* The classification of the url and the primary lookup alone, on urls     *)
(* composed of a prefix, a path marker, a token and a suffix, and on urls  *)
(* whose first path segment is a word.                                     *)
(***************************************************************************)
UrlPrefixes ==
    { Origin, S_https \o S_host, Origin \o <<"b","o","b","/">> }

UrlMarkers == { <<"p","/">>, <<"r","e","e","l","/">> }

UrlTokens == { <<"A","b","1">>, <<"a","_","-","9">>, <<"Z">> }

UrlSuffixes ==
    { <<>>, <<"/">>, <<"/","?","a","=","1">>, <<"?","q","=","/","x">>,
      <<"/","e","m","b","e","d","/">>, <<"#","f">>, <<"/","x","/","y">> }

\* urls with one shortcode marker
ShortcodeUrls ==
    { a \o m \o t \o z :
        a \in UrlPrefixes, m \in UrlMarkers, t \in UrlTokens,
        z \in UrlSuffixes }

\* urls with a /p/ and a /reel/ marker
TwoMarkerUrls ==
    { Origin \o <<"r","e","e","l","/","X","_","9","/","?","r","=","/","p","/","A","b","1">>,
      Origin \o <<"p","/","A","b","1","/","?","n","e","x","t","=","/","r","e","e","l","/","X","_","9">> }

FirstSegments ==
    { <<"p">>, <<"r","e","e","l">>, <<"r","e","e","l","s">>, <<"t","v">>,
      <<"s","t","o","r","i","e","s">>, <<"e","x","p","l","o","r","e">>,
      <<"a","c","c","o","u","n","t","s">>, <<"d","i","r","e","c","t">>, <<"b","o","b">> }

SegmentSuffixes == { <<>>, <<"/">>, <<"/","i","n","b","o","x","/">>, <<"?","h","l","=","e","n">> }

\* urls whose first path segment is a word
SegmentUrls ==
    { Origin \o w \o z : w \in FirstSegments, z \in SegmentSuffixes }

ClassifyUrls == ShortcodeUrls \cup TwoMarkerUrls \cup SegmentUrls

ClassifyReceive ==
    \E u \in ClassifyUrls :
        \/ ReceivePost(u)
        \/ ReceiveStory(u)
        \/ ReceiveProfile(u)

ClassifyNext ==
    \/ ClassifyReceive
    \/ PrimaryPost
    \/ PrimaryProfile
    \/ Return

ClassifySpec == Init /\ [][ClassifyNext]_vars

(***************************************************************************)
(* Properties.                                                             *)
(***************************************************************************)
FallbackRank(e) ==
    CASE e = "lookup" -> 0
      [] e = "standard" -> 1
      [] e = "mobile" -> 2
      [] e = "embed" -> 3

Count(s, e) == Cardinality({ i \in 1..Len(s) : s[i] = e })

\* a fallback request has been issued by the call being served
FallbackRequested == \E i \in 1..Len(trace) : FallbackRank(trace[i]) > 0

MethodNames == { MethodName(Methods[i]) : i \in 1..Len(Methods) }

\* the requests of the methods come in the order standard, mobile, embed, and
\* a result tagged with a method ends the call right after that method's
\* request
C1_Ordered ==
    /\ \A i, j \in 1..Len(trace) :
          i < j => FallbackRank(trace[i]) <= FallbackRank(trace[j])
    /\ Count(trace, "mobile") <= 1 /\ Count(trace, "embed") <= 1
    /\ Count(trace, "mobile") = 1 => Count(trace, "standard") >= 1
    /\ Count(trace, "embed") = 1 => Count(trace, "mobile") = 1
    /\ \A i \in 1..Len(Methods) :
          outcome.label = MethodName(Methods[i])
              => /\ pc = "done"
                 /\ outcome.status = 200
                 /\ Len(outcome.media_urls) >= 1
                 /\ trace # <<>>
                 /\ trace[Len(trace)] = Methods[i]

\* C1: in fallback_extraction the methods are tried in the order standard,
\* mobile, embed, each after the one before it; the call returns at the
\* first method whose extraction yields a media url, tagged with the label of
\* that method, whose request is the last one issued: once a call has
\* succeeded it issues no request any more.
C1_FirstSuccessEnds ==
    /\ []C1_Ordered
    /\ [][outcome.status = 200 => trace' = trace \/ trace' = <<>>]_vars

\* the standard method succeeded after a failed primary lookup: neither the
\* mobile nor the embed request was made
C1_Witness ==
    /\ pc = "done"
    /\ primary \in LookupErrors
    /\ outcome.label = "Standard request"
    /\ Count(trace, "standard") = 2

\* the kinds of section 4.1: /p/, /reel/, /reels/ and /tv/ are the
\* post family
HasPostFamilyPath(u) ==
    Contains(u, S_p) \/ Contains(u, S_reel) \/ Contains(u, S_reels)
        \/ Contains(u, S_tv)

IsProfileKind(u) == ~HasPostFamilyPath(u) /\ ~Contains(u, S_stories)

\* the url being served is valid, of a kind that has a primary strategy, and
\* holds a token for it
HasPrimaryToken ==
    /\ url # <<>>
    /\ IsInstagramUrl(url)
    /\ \/ HasPostFamilyPath(url) /\ extract_shortcode_from_url(url).ok
       \/ IsProfileKind(url) /\ extract_username_from_url(url).ok

\* C2: for a valid url of post-family kind (/p/, /reel/, /reels/, /tv/) or
\* of profile kind, the primary lookup is invoked with the extracted token
\* before any fallback request; fallback requests are issued only after the
\* primary lookup raised or yielded no url, and never after it yielded one.
C2_PrimaryFirst ==
    HasPrimaryToken =>
        /\ pc # "idle" /\ pc # "done" =>
              \/ pc \in {"primary_post", "primary_profile"} /\ trace = <<>>
              \/ trace # <<>> /\ trace[1] = "lookup"
        /\ trace # <<>> =>
              /\ trace[1] = "lookup"
              /\ token = (IF HasPostFamilyPath(url)
                          THEN extract_shortcode_from_url(url).val
                          ELSE extract_username_from_url(url).val)
        /\ FallbackRequested => primary \in {"empty"} \cup LookupErrors
        /\ primary = "resolved" => ~FallbackRequested

\* C3: when the primary lookup fails with a condition that confirms the
\* content is private, deleted or inaccessible, no fallback request is
\* issued and the caller receives a failure that is not the generic 404.
C3_PrivateSurfaced ==
    primary = "private" =>
        /\ ~FallbackRequested
        /\ pc = "done"
        /\ outcome.status # 200
        /\ outcome.status # 404

\* C3 (amended): a primary lookup that raises leads to the fallback whatever
\* the failure, a confirmed private or removed content included: the next
\* outbound call is the standard request, and the call ends in a success
\* found by a fallback method or in the generic 404.
C3_PrivateFallsBack ==
    primary \in LookupErrors =>
        /\ trace[1] = "lookup"
        /\ pc \in {"standard", "std_wait", "std_exhausted", "mobile", "embed",
                   "done"}
        /\ pc # "standard" \/ attempt > 0 => FallbackRequested
        /\ Len(trace) >= 2 => trace[2] = "standard"
        /\ pc = "done" =>
              \/ outcome = Failure(404)
              \/ outcome.status = 200 /\ outcome.label \in MethodNames

\* a content confirmed private was resolved by the standard fallback request
C3_Witness ==
    /\ primary = "private"
    /\ pc = "done"
    /\ outcome.status = 200
    /\ trace = << "lookup", "standard" >>

\* C4: a valid url of post or reel kind in which no shortcode pattern
\* matches is a hard failure: a 4xx outcome, no primary lookup, no fallback
\* request, never a success.
C4_TokenNotFound ==
    ( /\ url # <<>>
      /\ IsInstagramUrl(url)
      /\ HasPostFamilyPath(url)
      /\ ~extract_shortcode_from_url(url).ok )
        => /\ trace = <<>>
           /\ pc = "done"
           /\ outcome.status \in 400..499

\* C5: a url that fails the validation is answered at once with the 400
\* outcome: no primary lookup, no request, and the 400 is not turned into
\* another outcome.
C5_InvalidInput ==
    (url # <<>> /\ ~IsInstagramUrl(url)) =>
        /\ pc = "done"
        /\ outcome = Failure(400)
        /\ trace = <<>>
        /\ fetched = <<>>
        /\ token = <<>>
        /\ caught = <<>>

\* an invalid url has been answered
C5_Witness ==
    /\ url # <<>>
    /\ ~IsInstagramUrl(url)
    /\ Contains(url, S_p)
    /\ pc = "done"

\* the largest request budget whose overrun the model can show
Budget == MaxCalls - 1

\* C6: with a budget of N calls per 60-second window, the call after the
\* N-th in one window is rejected without a primary lookup or a request.
C6_RateLimited == calls > Budget => trace = <<>>

\* no 503 or 500 outcome exists, a call that entered the fallback ends in a
\* fallback success or in the 404, and each method raises at most once
C7_NoLeak ==
    /\ outcome.status \notin {500, 503}
    /\ (pc = "done" /\ (caught # <<>> \/ FallbackRequested)) =>
          \/ outcome = Failure(404)
          \/ outcome.status = 200 /\ outcome.label \in MethodNames
    /\ \A i, j \in 1..Len(caught) :
          i < j => FallbackRank(caught[i].method)
                       < FallbackRank(caught[j].method)

\* C7: an error raised inside a fallback method never reaches the caller:
\* it moves the loop to the next method, and when every method has failed or
\* found nothing the caller receives the 404, never a 503 or a 500.
C7_ErrorsAbsorbed ==
    /\ []C7_NoLeak
    /\ [][Len(caught') > Len(caught) =>
            \/ pc = "std_exhausted" /\ pc' = "mobile"
            \/ pc = "mobile" /\ pc' = "embed"
            \/ pc = "embed" /\ pc' = "done" /\ outcome' = Failure(404)]_vars

\* every method raised: retries exhausted, a non-200 mobile answer, no embed
\* form; the caller gets the 404
C7_Witness ==
    /\ pc = "done"
    /\ Len(caught) = 3
    /\ caught[1].error = "503"
    /\ caught[2].error = "not200"
    /\ caught[3].error = "noembed"
    /\ outcome = Failure(404)

\* C8: every fetch, of whichever variant, is attempted up to 3 times: a
\* failed attempt that is not the third is followed by another attempt of
\* the same variant, and the fetch fails, with the 503, only after 3 failed
\* attempts.
C8_ThreeAttempts ==
    /\ \A i \in 1..Len(Methods) : Count(trace, Methods[i]) <= max_retries
    /\ \A i \in 1..Len(caught) :
          caught[i].error # "noembed" =>
              /\ Count(trace, caught[i].method) = max_retries
              /\ caught[i].error = "503"

\* C9: the time slept between a failed attempt of make_request_with_retry
\* and the request of the next attempt lies in [10, 20] seconds after a 429
\* and in [2, 7] seconds after another status or a network error.
C9_Backoff ==
    (pc = "std_wait" /\ attempt > 0) =>
        /\ lastFail = "429" => gap \in 10..20
        /\ lastFail \in {"status", "neterr"} => gap \in 2..7

\* C9 (amended): that time lies in [12, 25] seconds after a 429, in [2, 5]
\* seconds after another non-200 status and in [5, 12] seconds after a
\* network error.
C9_BackoffSummed ==
    (pc = "std_wait" /\ attempt > 0) =>
        /\ lastFail \in {"429", "status", "neterr"}
        /\ lastFail = "429" => gap \in 12..25
        /\ lastFail = "status" => gap \in 2..5
        /\ lastFail = "neterr" => gap \in 5..12

\* the third request is sent 12 seconds after a 429
C9_Witness ==
    /\ pc = "std_wait"
    /\ attempt = 2
    /\ lastFail = "429"
    /\ gap = 12

\* C10: across the attempts of one standard fetch, the User-Agent chosen for
\* an attempt differs from the one of the attempt before it.
C10_Rotation ==
    [][(pc = "standard" /\ attempt > 0 /\ pc' = "std_wait") => ua' # ua]_vars

(***************************************************************************)
(* The extractor called alone: what a body offers, stated entry by entry.  *)
(***************************************************************************)
\* the families in the order extract_instagram_data scans them
FamilyPatterns ==
    << VideoPatterns, DisplayPatterns, ProfilePatterns >>

VideoFamily == 1
ImageFamily == 2
ProfileFamily == 3

\* the occurrences of candidates in a body: entry ent is matched by pattern
\* pat of family fam and its value, url once unescaped, names a media host
Occurrences(body) ==
    { [fam |-> o.fam, pat |-> o.pat, ent |-> o.ent,
       url |-> Unescape(body[o.ent].val)] :
        o \in { q \in [fam : 1..3, pat : 1..8, ent : 1..Len(body)] :
                  /\ q.pat <= Len(FamilyPatterns[q.fam])
                  /\ body[q.ent].key \in FamilyPatterns[q.fam][q.pat].keys
                  /\ body[q.ent].val # <<>>
                  /\ Contains(body[q.ent].val,
                              FamilyPatterns[q.fam][q.pat].need)
                  /\ \/ Contains(Unescape(body[q.ent].val), S_instagram)
                     \/ Contains(Unescape(body[q.ent].val), S_fbcdn) } }

\* the families in which a url is a candidate
FamiliesOf(occs, x) == { o.fam : o \in { q \in occs : q.url = x } }

MinOf(S) == CHOOSE x \in S : \A y \in S : x <= y

\* the families a content type selects, in the order of their concatenation
SelectedFamilies(type, occs) ==
    CASE type = "reel" ->
             (IF \E o \in occs : o.fam = VideoFamily
              THEN << VideoFamily >> ELSE << ImageFamily >>)
      [] type = "post" -> << ImageFamily, VideoFamily >>
      [] type = "story" -> << VideoFamily, ImageFamily >>
      [] OTHER -> << ProfileFamily >>

\* the rank of the first discovery of url x when the families are visited in
\* the order fams, the patterns of a family in their order, and the matches
\* of a pattern in document order; 0 when x is not discovered
FirstDiscovery(occs, fams, x) ==
    LET found ==
            UNION { { i * 10000 + o.pat * 100 + o.ent :
                        o \in { q \in occs : q.url = x /\ q.fam = fams[i] } } :
                    i \in 1..Len(fams) }
    IN  IF found = {} THEN 0 ELSE MinOf(found)

ScanOrder == << VideoFamily, ImageFamily, ProfileFamily >>

NoDuplicates(s) == \A i, j \in 1..Len(s) : s[i] = s[j] => i = j

\* C11 as stated: the extractor returns no url twice, and a url matched under
\* two pattern families stands at the position of its first discovery, the
\* discovery order being the order in which the families and their patterns
\* are scanned (video, display image, profile picture)
C11_ScanOrder ==
    pc = "extracted" =>
        LET r == extraction.media_urls
            occs == Occurrences(response_text)
        IN  /\ NoDuplicates(r)
            /\ \A i, j \in 1..Len(r) :
                  (/\ i < j
                   /\ \/ Cardinality(FamiliesOf(occs, r[i])) > 1
                      \/ Cardinality(FamiliesOf(occs, r[j])) > 1)
                      => FirstDiscovery(occs, ScanOrder, r[i])
                             < FirstDiscovery(occs, ScanOrder, r[j])

\* C11: the extractor returns no url twice, and every url, one matched under
\* two pattern families included, stands at the position of its first
\* discovery in the order of the selection: the families in the order the
\* content type concatenates them (for a post the display images before the
\* videos), the patterns of a family in the order they are scanned
C11_SelectionOrder ==
    pc = "extracted" =>
        LET r == extraction.media_urls
            occs == Occurrences(response_text)
            fams == SelectedFamilies(extraction.type, occs)
        IN  /\ NoDuplicates(r)
            /\ \A i \in 1..Len(r) : FirstDiscovery(occs, fams, r[i]) > 0
            /\ \A i, j \in 1..Len(r) :
                  i < j => FirstDiscovery(occs, fams, r[i])
                               < FirstDiscovery(occs, fams, r[j])

\* a post whose second url is a candidate of the video and of the image
\* family
C11_Witness ==
    /\ pc = "extracted"
    /\ extraction.type = "post"
    /\ Len(extraction.media_urls) = 2
    /\ Cardinality(FamiliesOf(Occurrences(response_text),
                              extraction.media_urls[2])) = 2

\* the distinct urls that are candidates of the families fams
Candidates(occs, fams) ==
    { o.url : o \in { q \in occs : \E i \in 1..Len(fams) : q.fam = fams[i] } }

\* C12: the extractor never returns more than 10 urls; when the selection
\* holds more than 10 distinct candidates it returns exactly 10, the first 10
\* of the deduplicated selection, in unchanged order
C12_Capped ==
    pc = "extracted" =>
        LET r == extraction.media_urls
            occs == Occurrences(response_text)
            fams == SelectedFamilies(extraction.type, occs)
            cands == Candidates(occs, fams)
            rank(x) == FirstDiscovery(occs, fams, x)
        IN  /\ Len(r) <= 10
            /\ Cardinality(cands) > 10 => Len(r) = 10
            /\ Cardinality(cands) <= 10 => Len(r) = Cardinality(cands)
            /\ \A i \in 1..Len(r) : r[i] \in cands
            /\ \A i \in 1..(Len(r) - 1) : rank(r[i]) < rank(r[i + 1])
            /\ \A x \in cands :
                  (\A i \in 1..Len(r) : r[i] # x)
                      => rank(r[Len(r)]) < rank(x)

\* a post with 15 distinct candidates, 10 of which are returned
C12_Witness ==
    /\ pc = "extracted"
    /\ extraction.type = "post"
    /\ Cardinality(Candidates(Occurrences(response_text),
                              << ImageFamily, VideoFamily >>)) = 15
    /\ Len(extraction.media_urls) = 10

(***************************************************************************)
(* The handler: content kind, multi-item posts, stories.                   *)
(***************************************************************************)
\* the content kind of a url by its path marker
KindOfUrl(u) ==
    IF Contains(u, S_reel) \/ Contains(u, S_reels) THEN "reel"
    ELSE IF Contains(u, S_p) \/ Contains(u, S_tv) THEN "post"
    ELSE IF Contains(u, S_stories) THEN "story"
    ELSE "profile"

\* C13: the content kind of a successful result depends on the url alone,
\* whichever strategy resolved it: post for /p/ and /tv/, reel for /reel/ and
\* /reels/, story for /stories/, profile for a bare profile url
C13_KindByUrl == outcome.status = 200 => outcome.type = KindOfUrl(url)

\* the direct url of one item of a multi-item post
ChildUrl(c) == IF c.is_video THEN c.video_url ELSE c.url

\* C14: when the primary lookup resolves a multi-item post of k children,
\* media_urls holds the direct url of every child, in child order
C14_SidecarChildren ==
    (pc = "done" /\ primary = "resolved" /\ Len(post.children) > 0) =>
        outcome.media_urls
            = [i \in 1..Len(post.children) |-> ChildUrl(post.children[i])]

\* the url takes the story branch of download_instagram_content
IsStoryCall ==
    IsInstagramUrl(url) /\ ~IsPostFamily(url) /\ Contains(url, S_stories)

\* C15: a story url whose fallback strategies all fail ends in an outcome of
\* its own, neither the generic 404 of an exhausted post, reel or profile nor
\* a 500-class error
C15_StoryUnsupported ==
    (pc = "done" /\ IsStoryCall /\ outcome.status # 200) =>
        /\ outcome # Failure(404)
        /\ outcome.status \notin 500..599

(***************************************************************************)
(* The extractor called alone: the selection.                              *)
(***************************************************************************)
Range(s) == { s[i] : i \in 1..Len(s) }

\* r holds candidates of the set wanted only, and all of them unless the
\* limit of 10 cut it
Holds(r, wanted) ==
    /\ Range(r) \subseteq wanted
    /\ Len(r) < 10 => wanted \subseteq Range(r)

\* in r every url of the set first stands before every url outside it
StandFirst(r, first) ==
    \A i, j \in 1..Len(r) : (i < j /\ r[j] \in first) => r[i] \in first

\* C16: the selection follows the kind hint for every combination of empty
\* and non-empty families: reel gives the videos if there is one, else the
\* images; post the images, then the videos; story the videos, then the
\* images; profile the profile pictures only
C16_SelectionByKind ==
    pc = "extracted" =>
        LET r == extraction.media_urls
            occs == Occurrences(response_text)
            video == Candidates(occs, << VideoFamily >>)
            image == Candidates(occs, << ImageFamily >>)
            profile == Candidates(occs, << ProfileFamily >>)
        IN  CASE extraction.type = "reel" ->
                     (IF video # {} THEN Holds(r, video)
                                    ELSE Holds(r, image))
              [] extraction.type = "post" ->
                     Holds(r, image \cup video) /\ StandFirst(r, image)
              [] extraction.type = "story" ->
                     Holds(r, video \cup image) /\ StandFirst(r, video)
              [] extraction.type = "profile" -> Holds(r, profile)
              [] OTHER -> FALSE

\* a post with a video and an image that is no video: the image comes first
C16_Witness ==
    /\ pc = "extracted"
    /\ extraction.type = "post"
    /\ Len(extraction.media_urls) = 2
    /\ LET occs == Occurrences(response_text)
       IN  /\ extraction.media_urls[1]
                  \in Candidates(occs, << ImageFamily >>)
                          \ Candidates(occs, << VideoFamily >>)
           /\ extraction.media_urls[2]
                  \in Candidates(occs, << VideoFamily >>)
                          \ Candidates(occs, << ImageFamily >>)

(***************************************************************************)
(* The classification of the url.                                          *)
(***************************************************************************)
ReservedByName ==
    ReservedWords \cup { <<"d","i","r","e","c","t">> }

\* the first path segment after the domain
FirstSegment(u) == SearchGroup(u, S_host, {"/", "?", "#"}, FALSE).val

\* C17: the username given to the primary profile lookup is the first path
\* segment after the domain and never one of p, reel, reels, tv, stories,
\* explore, accounts, direct: for a url whose first segment is one of them the
\* extraction raises and no primary lookup is made
C17_NoReservedUsername ==
    /\ pc = "primary_profile" =>
          token = FirstSegment(url) /\ token \notin ReservedByName
    /\ (pc # "idle" /\ IsProfileKind(url)
            /\ FirstSegment(url) \in ReservedByName) =>
          Count(trace, "lookup") = 0

\* the positions of a path marker in a url
MarkerHits(u, m) == { i \in 1..Len(u) : MatchesAt(u, m, i) }

\* the longest run of shortcode characters after the marker at position i
TokenAfter(u, m, i) ==
    SubSeq(u, i + Len(m),
           i + Len(m) + RunLen(u, i + Len(m), ShortcodeChars, TRUE) - 1)

\* the non-empty tokens that follow a marker in a url
TokensOf(u, m) ==
    { TokenAfter(u, m, i) : i \in MarkerHits(u, m) } \ { <<>> }

\* the url of the call is classified as a post-family url, its shortcode is
\* every token of toks, and a primary success has the content kind
ClassifiedAs(toks, kind) ==
    toks # {} =>
        /\ primary # "notoken"
        /\ pc # "primary_profile"
        /\ \A t \in toks : token = t
        /\ primary = "resolved" => outcome.type = kind

\* C18 as stated: for every url containing /p/<token> or /reel/<token> the
\* kind is post for /p/ and reel for /reel/ and the shortcode extracted is
\* <token>, whatever else the url contains
C18_AnyUrl ==
    pc # "idle" =>
        /\ ClassifiedAs(TokensOf(url, S_p), "post")
        /\ ClassifiedAs(TokensOf(url, S_reel), "reel")

\* the url holds one occurrence of a shortcode path marker and no more
OneMarker(u) ==
    Cardinality(MarkerHits(u, S_p)) + Cardinality(MarkerHits(u, S_reel))
        + Cardinality(MarkerHits(u, S_reels))
        + Cardinality(MarkerHits(u, S_tv)) = 1

\* C18: for every url whose only shortcode path marker is one /p/<token> or
\* /reel/<token> with a non-empty token, the kind is post for /p/ and reel
\* for /reel/ and the shortcode extracted is <token>, whatever else the url
\* contains (trailing slash, query string, other path segments)
C18_SingleMarker ==
    (pc # "idle" /\ OneMarker(url)) =>
        /\ ClassifiedAs(TokensOf(url, S_p), "post")
        /\ ClassifiedAs(TokensOf(url, S_reel), "reel")

\* a reel url with a path segment before the marker and a query string after
\* the token, resolved by the primary lookup
C18_Witness ==
    /\ pc = "done"
    /\ primary = "resolved"
    /\ OneMarker(url)
    /\ TokensOf(url, S_reel) = { <<"a","_","-","9">> }
    /\ Contains(url, <<"b","o","b","/","r","e","e","l","/">>)
    /\ Contains(url, <<"?">>)
    /\ token = <<"a","_","-","9">>
    /\ outcome.type = "reel"

(***************************************************************************)
(* The embed method and the retry loop.                                    *)
(***************************************************************************)
EndsWith(s, p) == MatchesAt(s, p, Len(s) - Len(p) + 1)

EmbedRequested == \E i \in 1..Len(trace) : trace[i] = "embed"

\* C19: the embed method issues a request only for post and reel urls, to
\* the embeddable-post form /p/<token>/embed/ of the content (the reel path
\* replaced by the post path); for a story or a profile url it fails without
\* a request, and the failure is absorbed by the loop of the fallback
C19_EmbedForm ==
    /\ EmbedRequested => KindOfUrl(url) \in {"post", "reel"}
    /\ (/\ trace # <<>>
        /\ trace[Len(trace)] = "embed"
        /\ extract_shortcode_from_url(url).ok) =>
          EndsWith(fetched,
                   S_p \o extract_shortcode_from_url(url).val \o S_embed)
    /\ (/\ KindOfUrl(url) \in {"story", "profile"}
        /\ \E i \in 1..Len(caught) : caught[i].method = "embed") =>
          /\ ~EmbedRequested
          /\ pc = "done"
          /\ outcome = Failure(404)

\* C20: make_request_with_retry sleeps a backoff only when another attempt
\* follows: after the last failed attempt, whatever its failure, it reports
\* the failure without a sleep
C20_NoSleepAtEnd == pc = "std_exhausted" => slept = 0

(***************************************************************************)
(* Termination and resources of one call.                                  *)
(***************************************************************************)
\* the requests of one strategy follow each other in the trace
Contiguous(e) ==
    \A i, j, k \in 1..Len(trace) :
        (i < j /\ j < k /\ trace[i] = e /\ trace[k] = e) => trace[j] = e

\* at most one primary lookup, 3 standard, 1 mobile and 1 embed request, no
\* strategy taken up again, and an outcome only when the call is over
Resources ==
    /\ Count(trace, "lookup") <= 1
    /\ Count(trace, "standard") <= 3
    /\ Count(trace, "mobile") <= 1
    /\ Count(trace, "embed") <= 1
    /\ Len(trace) - Count(trace, "lookup") <= 5
    /\ Contiguous("standard")
    /\ (pc = "done") = (outcome # NoOutcome)
    /\ outcome # NoOutcome =>
          outcome.status = 200 \/ outcome \in { Failure(400), Failure(404),
                                               Failure(500) }

\* an outcome, once given, stands until the answer is delivered
OneOutcome == outcome # NoOutcome => outcome' \in { outcome, NoOutcome }

\* C21: every call of download_instagram_content ends in exactly one
\* terminal outcome, a success or a 400, 404 or 500 failure, after at most
\* one primary lookup and at most 5 GETs (3 standard, 1 mobile, 1 embed), no
\* strategy being attempted twice, provided every collaborator call returns
C21_Terminates ==
    /\ []Resources
    /\ [][OneOutcome]_vars
    /\ (pc # "idle") ~> (pc = "done")

\* a call that ends after its primary lookup and all 5 requests
C21_Witness ==
    /\ pc = "done"
    /\ outcome = Failure(404)
    /\ trace = << "lookup", "standard", "standard", "standard", "mobile",
                  "embed" >>

\* C22: extract_username_from_url never returns the empty string, also for a
\* domain followed only by a query string or a fragment: the primary profile
\* lookup is never given an empty username
C22_NonEmptyUsername == pc = "primary_profile" => token # <<>>

============================================================================
